---- MODULE Spec2Model ----
(***************************************************************************)
(* Sync orchestration engine of syncbit (src/src/scheduler.py) with the   *)
(* Progress Store (src/src/sync_state.py) and the batch writer of         *)
(* src/src/victoria_writer.py.                                             *)
(*                                                                         *)
(* A datetime is an integer number of clock ticks; a calendar date is a   *)
(* day number.  strftime("%Y-%m-%d") truncates a datetime to its day and  *)
(* strptime(..., "%Y-%m-%d") yields midnight of a day, so a datetime with *)
(* a time-of-day component is different from the midnight of its date.    *)
(*                                                                         *)
(* Spec      : backfill_data and sync_data called on a SyncScheduler.      *)
(* SpecStart : the same engine driven by start().                          *)
(* SpecStore : SyncState alone, with failing storage and process crashes.  *)
(***************************************************************************)
EXTENDS Integers, Sequences, FiniteSets, TLC

\* ---------------------------------------------------------------- bounds
\* clock ticks per calendar day (tick 0 of a day is exactly 00:00:00.000000)
TicksPerDay == 2
\* last calendar day the clock may reach
MaxDay == 4
\* the day of the clock in the runs of backfill_data over long ranges
LongDay == 12
\* days before now of the fallback first date of get_first_available_date
\* (30 in the source; shortened so that a pass from it stays short)
FallbackAgo == 3
\* the longest list of records given to write_multiple_days on its own
MaxRecords == 3
\* the last day of a range given to get_historical_data on its own
MaxHistDay == 2

\* ------------------------------------------------------ program constants
batch_size == 10
max_consecutive_rate_limits == 3
max_retries == 2
DefaultRetryAfter == 60
ExtendedWait == 300
InterRequestDelay == 30

\* Optional values that are absent (Python None / missing attribute)
NoDate == -999
NoVal == -1

\* ------------------------------------------------------------- variables
VARIABLES
    now,                      \* datetime.now(), in ticks
    cfgStart,                 \* Config.BACKFILL_START_DATE (a day or NoDate)
    cfgToday,                 \* Config.INCLUDE_TODAY_DATA
    cfgIntraday,              \* Config.ENABLE_INTRADAY_COLLECTION
    last_successful_date,     \* SyncState.last_successful_date (day or NoDate)
    state_file,               \* what Config.STATE_FILE holds on disk
    disk,                     \* condition of the storage of the state file
    store_pc,                 \* is there a live SyncState instance?
    phase,                    \* position of start()
    jobs,                     \* ids of the jobs added to the BlockingScheduler
    pc,                       \* position of the orchestration thread
    caller,                   \* who invoked backfill_data: "top" or "sync"
    \* locals of sync_data
    yesterday,
    skip_state_update,
    dates_to_sync,
    target_idx,
    retry_count,
    is_complete_day,
    \* locals of _backfill_with_incremental_sync
    current_date,
    end_date,
    batch,
    consecutive_rate_limits,
    \* history variables (observations, not program state)
    ev,                       \* what the last step fetched, wrote and slept
    bf,                       \* summary of the current backfill pass
    cyc,                      \* summary of the current sync_data cycle (and
                              \* of the backfill_data call before it)
    sv,                       \* the last operation on the Progress Store
    trace,                    \* the calls start() has made, in order
    \* calls followed step by step on their own
    wr,                       \* a call of write_multiple_days
    hd,                       \* a call of get_historical_data
    intra                     \* a call of sync_intraday_data

cfgVars  == <<cfgStart, cfgToday, cfgIntraday>>
storeVars == <<disk, store_pc, sv>>
startVars == <<phase, jobs, trace>>
\* the configuration and the calls followed on their own
fixedVars == <<cfgVars, wr, hd, intra>>
\* what the sync engine itself never changes
outerVars == <<fixedVars, storeVars, startVars>>
\* the checkpoint, in memory and on disk
ckptVars == <<last_successful_date, state_file>>
syncVars == <<yesterday, skip_state_update, dates_to_sync, target_idx,
              retry_count, is_complete_day>>
bfVars   == <<current_date, end_date, batch, consecutive_rate_limits>>
vars == <<now, cfgStart, cfgToday, cfgIntraday, last_successful_date,
          state_file, disk, store_pc, sv, phase, jobs, trace, pc, caller,
          yesterday, skip_state_update, dates_to_sync, target_idx,
          retry_count, is_complete_day, current_date, end_date, batch,
          consecutive_rate_limits, ev, bf, cyc, wr, hd, intra>>

\* ------------------------------------------------------- date arithmetic
\* datetime.strftime("%Y-%m-%d"): the calendar day of a datetime
strftime(t) == t \div TicksPerDay
\* datetime.strptime(s, "%Y-%m-%d"): midnight of a calendar day
strptime(d) == d * TicksPerDay
\* timedelta(days=n)
timedelta(n) == n * TicksPerDay
\* dt.replace(hour=0, minute=0, second=0, microsecond=0)
replace_midnight(t) == strptime(strftime(t))

Min(a, b) == IF a <= b THEN a ELSE b

\* ------------------------------------------------- collaborator outcomes
\* RateLimitError as seen by the scheduler: retry_after, and the optional
\* attributes remaining / quota_reset (NoVal = attribute absent or None)
RateLimitSignals ==
    [retry_after : {NoVal, 0, 45}, remaining : {NoVal, 0, 7},
     quota_reset : {NoVal, 0, 1800}]

\* outcome of write_daily_data for one record
WriteOutcomes == {"ok", "fail", "raise"}

\* per-record outcomes of one write_multiple_days call on n records
BatchOutcomes(n) ==
    [1..n -> {"ok", "fail"}] \cup {[i \in 1..n |-> "raise"]}

\* quota_exhausted = hasattr(e, "remaining") and e.remaining is not None
\*                   and e.remaining <= 0
quota_exhausted(e) == e.remaining # NoVal /\ e.remaining <= 0

\* e.retry_after if hasattr(e, "retry_after") and e.retry_after else 60
base_wait_time_Raw(e) ==
    IF e.retry_after # NoVal THEN e.retry_after ELSE DefaultRetryAfter

base_wait_time(e) ==
    IF e.retry_after # NoVal /\ e.retry_after # 0 THEN e.retry_after
    ELSE DefaultRetryAfter

\* wait before the final retry once the consecutive limit is reached
extended_wait_time_Base(e) == base_wait_time(e)

extended_wait_time(e) ==
    IF quota_exhausted(e) /\ e.quota_reset # NoVal /\ e.quota_reset # 0
    THEN e.quota_reset
    ELSE ExtendedWait

\* VictoriaMetricsWriter.write_multiple_days: one write per record, in order;
\* returns <<successful, failed>>
RECURSIVE CountWrites(_, _, _, _)
CountWrites(outs, i, successful, failed) ==
    IF i > Len(outs) THEN <<successful, failed>>
    ELSE IF outs[i] = "ok" THEN CountWrites(outs, i + 1, successful + 1, failed)
    ELSE CountWrites(outs, i + 1, successful, failed + 1)

write_multiple_days(data_points, outs) ==
    CountWrites([i \in 1..Len(data_points) |-> outs[i]], 1, 0, 0)

\* ------------------------------------------------------ history records
NoSignal == [retry_after |-> NoVal, remaining |-> NoVal, quota_reset |-> NoVal]

NoEvent ==
    [op |-> "none", fetch |-> "none", fdate |-> NoDate, write |-> "none",
     handed |-> 0, anyOk |-> FALSE, lastOk |-> FALSE, wait |-> 0,
     sig |-> NoSignal]

NoPass ==
    [start |-> NoDate, endDay |-> NoDate, startCkpt |-> NoDate,
     attempted |-> {}, ordered |-> TRUE, lastFetch |-> NoDate,
     dateFetches |-> 0, unhanded |-> 0, allOk |-> TRUE,
     stopped |-> FALSE, firstUnconfirmed |-> NoDate, hadError |-> FALSE,
     lastFlushed |-> NoDate, escalations |-> 0]

NoCycle ==
    [ckpt |-> NoDate, backfills |-> 0, active |-> FALSE, quota |-> FALSE,
     stoppedEmpty |-> FALSE]

\* earliest of an optional date and another optional date
Unconf(old, d) ==
    IF d = NoDate THEN old ELSE IF old = NoDate THEN d ELSE Min(old, d)

\* date of the first record of b whose write was not confirmed (or NoDate)
FirstBad(b, outs) ==
    LET bad == {i \in 1..Len(b) : outs[i] # "ok"}
    IN  IF bad = {} THEN NoDate
        ELSE b[CHOOSE i \in bad : \A j \in bad : i <= j]

\* the pass summary after one more fetch of day d
Fetched(p, d) ==
    [p EXCEPT !.attempted = @ \cup {d},
              !.ordered = @ /\ (p.lastFetch = NoDate \/ d >= p.lastFetch),
              !.lastFetch = d,
              !.dateFetches = IF p.lastFetch = d THEN @ + 1 ELSE 1]

\* the pass summary after handing batch b to the Sink with outcomes outs
Handed(p, b, outs) ==
    [p EXCEPT !.unhanded = @ - Len(b),
              !.allOk = @ /\ (\A i \in 1..Len(b) : outs[i] = "ok"),
              !.firstUnconfirmed = Unconf(@, FirstBad(b, outs)),
              !.lastFlushed = b[Len(b)]]

\* ------------------------------------------------------ the state file
\* The content of Config.STATE_FILE: no file, bytes that json.load rejects
\* (with the date they may still spell), or a JSON document with the key
\* last_successful_date.  (The key last_sync, the time of the update, is
\* written along and read back but no decision of the program reads it.)
NoFile == [kind |-> "missing", date |-> NoDate]
\* open(state_file, 'w') has truncated the file and nothing was written
Truncated == [kind |-> "corrupt", date |-> NoDate]
\* only a prefix of the document reached the file
Partial(d) == [kind |-> "corrupt", date |-> d]
\* json.dump(data, f, indent=2) completed
json_dump(d) == [kind |-> "json", date |-> d]

StateFiles(days) ==
    {NoFile, Truncated} \cup {Partial(d) : d \in days}
        \cup {json_dump(d) : d \in days \cup {NoDate}}

\* SyncState._load_state on a fresh instance: last_successful_date stays
\* None when the file does not exist or anything raises
_load_state_Lenient(f) == f.date

_load_state(f) == IF f.kind = "json" THEN f.date ELSE NoDate

\* what may happen inside _save_state, by the condition of the storage
IoOutcomes(dsk) ==
    IF dsk = "ok" THEN {"ok"}
    ELSE {"ok", "open_error", "dump_error_empty", "dump_error_partial"}

\* SyncState._save_state: the file it leaves; an exception of mkdir or open
\* leaves the file alone, one of json.dump or close leaves what was written
\* after the truncation
_save_state(f, d, io) ==
    CASE io = "ok" -> json_dump(d)
      [] io = "open_error" -> f
      [] io = "dump_error_empty" -> Truncated
      [] io = "dump_error_partial" -> Partial(d)

\* history record of the Progress Store: the operation, the date passed,
\* and the checkpoint a load of the file would have given before it
NoStoreOp == [op |-> "none", date |-> NoDate, old |-> NoDate]

\* ---------------------------------------------------------------- Init
\* the clock runs from the last tick before MaxDay to the end of MaxDay
MinNow == strptime(MaxDay) - 1
MaxNow == strptime(MaxDay) + TicksPerDay - 1
\* configured BACKFILL_START_DATE values: far past, recent, in the future
StartDays == {0, MaxDay - 2, MaxDay + 1}
\* memberSince days reported by the profile
FirstDays == {MaxDay - 3, MaxDay + 1}

\* the state file an earlier run may have left by time t: none, or one
\* naming a day before that of t
LeftFiles(t) == {NoFile} \cup {json_dump(d) : d \in 0..(strftime(t) - 1)}

\* no call of write_multiple_days, get_historical_data or
\* sync_intraday_data is being followed
NoWrite == [pc |-> "idle"]
NoHistorical == [pc |-> "idle"]
NoIntraday == [pc |-> "idle"]

\* the engine at rest: no call of backfill_data or sync_data in progress
EngineIdle ==
    /\ pc = "idle"
    /\ caller = "top"
    /\ yesterday = 0
    /\ skip_state_update = FALSE
    /\ dates_to_sync = <<>>
    /\ target_idx = 0
    /\ retry_count = 0
    /\ is_complete_day = FALSE
    /\ current_date = 0
    /\ end_date = 0
    /\ batch = <<>>
    /\ consecutive_rate_limits = 0
    /\ ev = NoEvent
    /\ bf = NoPass
    /\ cyc = NoCycle
    /\ wr = NoWrite
    /\ hd = NoHistorical
    /\ intra = NoIntraday

\* a constructed SyncScheduler whose backfill_data and sync_data are invoked
\* directly (start() is not running), on storage that works; the state file
\* is the one an earlier run left, loaded by SyncState.__init__
Init ==
    /\ now \in MinNow..MaxNow
    /\ cfgStart \in {NoDate} \cup StartDays
    /\ cfgToday \in BOOLEAN
    /\ cfgIntraday = FALSE
    /\ state_file \in LeftFiles(now)
    /\ last_successful_date = _load_state(state_file)
    /\ disk = "ok"
    /\ store_pc = "ready"
    /\ sv = NoStoreOp
    /\ phase = "direct"
    /\ jobs = {}
    /\ trace = <<>>
    /\ EngineIdle

\* the clock advances by one tick
Tick ==
    /\ now < MaxNow
    /\ now' = now + 1
    /\ UNCHANGED <<outerVars, ckptVars, pc, caller, syncVars,
                   bfVars, ev, bf, cyc>>

\* SyncState.update_last_sync(date_str): the in-memory value is set first,
\* then _save_state runs and swallows whatever it raises
update_last_sync(date_str) ==
    /\ last_successful_date' = date_str
    /\ \E io \in IoOutcomes(disk) :
         state_file' = _save_state(state_file, date_str, io)

\* ---------------------------------------------------------- backfill_data
\* where control goes when backfill_data returns
ReturnPc == IF caller = "sync" THEN "sync_after_bf" ELSE "idle"

\* control enters backfill_data from outside sync_data
EnterBackfillData ==
    /\ pc = "idle"
    /\ pc' = "bf_plan"
    /\ caller' = "top"
    /\ ev' = NoEvent
    /\ cyc' = NoCycle
    /\ UNCHANGED <<now, fixedVars, storeVars, ckptVars, syncVars, bfVars, bf>>

\* backfill_data invoked directly on the scheduler object
CallBackfill ==
    /\ phase = "direct"
    /\ EnterBackfillData
    /\ UNCHANGED startVars

\* possible results of FitbitCollector.get_first_available_date: midnight
\* of the memberSince day, or the fallback some days before now (which
\* keeps the time of day); None is what the scheduler's "if not first_date"
\* guards against
get_first_available_date ==
    {NoDate} \cup {strptime(d) : d \in FirstDays}
             \cup {now - timedelta(FallbackAgo)}

\* entry into _backfill_with_incremental_sync(start_date, end_date)
EnterPass(start_date, e_date) ==
    /\ current_date' = start_date
    /\ end_date' = e_date
    /\ batch' = <<>>
    /\ consecutive_rate_limits' = 0
    /\ bf' = [NoPass EXCEPT !.start = strftime(start_date),
                            !.endDay = strftime(e_date),
                            !.startCkpt = last_successful_date]
    /\ pc' = IF start_date <= e_date THEN "bf_loop" ELSE "bf_return"

\* backfill_data returns without running a pass
NoPassReturn ==
    /\ pc' = ReturnPc
    /\ UNCHANGED <<bfVars, bf>>

\* "Gap detected - fill from day after last sync to yesterday"
GapStart_Refetch(last_sync_date) == last_sync_date

GapStart(last_sync_date) == last_sync_date + timedelta(1)

\* "If last sync was yesterday or today, no gap to fill"
is_current_Strict(last_sync_date, e_date) == last_sync_date > e_date

is_current(last_sync_date, e_date) == last_sync_date >= e_date

\* backfill_data: choose the range and run the pass
backfill_end_date_Today == now

\* "End at yesterday (most recent complete day)"
backfill_end_date == now - timedelta(1)

BackfillPlan ==
    /\ pc = "bf_plan"
    /\ LET last_synced == last_successful_date
           e_date == backfill_end_date
       IN  IF last_synced # NoDate
           THEN LET last_sync_date == strptime(last_synced)
                IN  IF is_current(last_sync_date, e_date)
                    THEN IF cfgStart # NoDate
                            /\ strptime(cfgStart) < last_sync_date
                         THEN EnterPass(strptime(cfgStart),
                                        last_sync_date - timedelta(1))
                         ELSE NoPassReturn
                    ELSE LET start_date == GapStart(last_sync_date)
                         IN  IF start_date > e_date THEN NoPassReturn
                             ELSE EnterPass(start_date, e_date)
           ELSE IF cfgStart # NoDate
           THEN IF strptime(cfgStart) > e_date THEN NoPassReturn
                ELSE EnterPass(strptime(cfgStart), e_date)
           ELSE /\ pc' = "bf_first"
                /\ end_date' = e_date
                /\ UNCHANGED <<current_date, batch, consecutive_rate_limits,
                               bf>>
    /\ ev' = NoEvent
    /\ UNCHANGED <<now, outerVars, ckptVars, caller, syncVars, cyc>>

\* backfill_data without checkpoint and configured start: ask the collector
BackfillFirstDate ==
    /\ pc = "bf_first"
    /\ \E first_date \in get_first_available_date :
         /\ IF first_date = NoDate \/ first_date > end_date
            THEN /\ pc' = ReturnPc
                 /\ end_date' = 0
                 /\ UNCHANGED <<current_date, batch, consecutive_rate_limits,
                                bf>>
            ELSE EnterPass(first_date, end_date)
         /\ ev' = [NoEvent EXCEPT
                     !.op = "first_date",
                     !.fdate = IF first_date = NoDate THEN NoDate
                               ELSE strftime(first_date)]
    /\ UNCHANGED <<now, outerVars, ckptVars, caller, syncVars, cyc>>

\* ------------------------------------------- _backfill_with_incremental_sync
\* the while condition, evaluated after a loop iteration
LoopPc_Over(cd) ==
    IF cd <= end_date + timedelta(1) THEN "bf_loop" ELSE "bf_return"

LoopPc(cd) == IF cd <= end_date THEN "bf_loop" ELSE "bf_return"

\* "Write batch when full or at end"
FlushDue_Late(b) == Len(b) > batch_size \/ current_date = end_date

FlushDue(b) == Len(b) >= batch_size \/ current_date = end_date

\* the Sink outcomes to consider once b has been fetched
FlushOutcomes(b) == IF FlushDue(b) THEN BatchOutcomes(Len(b)) ELSE {<<>>}

\* "consecutive_rate_limits = 0  # Reset on success"
after_success_Kept(n) == n

after_success(n) == 0

\* try body after a successful fetch: append, flush when due, next date
AppendAndAdvance(op, outs) ==
    LET d == strftime(current_date)
        b == Append(batch, d)
        r == write_multiple_days(b, outs)
        next_date == current_date + timedelta(1)
        p == [Fetched(bf, d) EXCEPT !.unhanded = @ + 1, !.escalations = 0]
    IN  /\ consecutive_rate_limits' = after_success(consecutive_rate_limits)
        /\ IF FlushDue(b)
           THEN /\ update_last_sync(b[Len(b)])
                /\ batch' = <<>>
                /\ bf' = Handed(p, b, outs)
           ELSE /\ batch' = b
                /\ bf' = p
                /\ UNCHANGED ckptVars
        /\ current_date' = next_date
        /\ ev' = [op |-> op, fetch |-> "ok", fdate |-> d, write |-> "none",
                  handed |-> IF FlushDue(b) THEN Len(b) ELSE 0,
                  anyOk |-> FlushDue(b) /\ r[1] > 0,
                  lastOk |-> FlushDue(b) /\ outs[Len(b)] = "ok",
                  wait |-> IF next_date <= end_date THEN InterRequestDelay
                           ELSE 0,
                  sig |-> NoSignal]
        /\ pc' = LoopPc(next_date)

\* "Write partial batch before handling error": the flush of both handlers
PartialFlush_Skipped(p, outs) ==
    /\ UNCHANGED <<ckptVars, batch>>
    /\ bf' = p

PartialFlush(p, outs) ==
    IF batch # <<>>
    THEN /\ update_last_sync(batch[Len(batch)])
         /\ batch' = <<>>
         /\ bf' = Handed(p, batch, outs)
    ELSE /\ UNCHANGED <<ckptVars, batch>>
         /\ bf' = p

\* the history record of a handler step
HandlerEvent(op, kind, outs, w, e) ==
    [op |-> op, fetch |-> kind, fdate |-> strftime(current_date),
     write |-> "none", handed |-> Len(batch),
     anyOk |-> write_multiple_days(batch, outs)[1] > 0,
     lastOk |-> batch # <<>> /\ outs[Len(batch)] = "ok", wait |-> w,
     sig |-> e]

\* the except clauses of the loop body and of the final retry: "except
\* RateLimitError" and "except Exception"
loop_catches(exc) == exc \in {"RateLimitError", "Exception"}

\* "except Exception" around the whole body of backfill_data
backfill_data_catches(exc) == exc \in {"RateLimitError", "Exception"}

\* where control is after a fetch of the pass raised exc and its handler
\* continues at next_pc; what the loop does not catch ends the pass and is
\* logged by backfill_data; "raised" = the exception leaves backfill_data
LoopAfter(exc, next_pc) ==
    IF loop_catches(exc) THEN next_pc
    ELSE IF backfill_data_catches(exc) THEN "bf_return"
    ELSE "raised"

\* loop iteration whose fetch succeeds
BackfillFetchOk ==
    /\ pc = "bf_loop"
    /\ \E outs \in FlushOutcomes(Append(batch, strftime(current_date))) :
         AppendAndAdvance("bf", outs)
    /\ UNCHANGED <<now, outerVars, caller, syncVars, end_date, cyc>>

\* loop iteration whose fetch raises RateLimitError
escalation_due_Exact(n) == n = max_consecutive_rate_limits

\* the hit is the third consecutive one or a later one
escalation_due(n) == n >= max_consecutive_rate_limits

BackfillFetchRateLimited ==
    /\ pc = "bf_loop"
    /\ \E outs \in BatchOutcomes(Len(batch)) :
         LET n == consecutive_rate_limits + 1
             p == [Fetched(bf, strftime(current_date)) EXCEPT
                      !.allOk = FALSE,
                      !.escalations =
                          IF escalation_due(n) THEN @ + 1 ELSE @]
         IN  /\ consecutive_rate_limits' = n
             /\ PartialFlush(p, outs)
             /\ IF escalation_due(n)
                THEN /\ pc' = LoopAfter("RateLimitError", "bf_final")
                     /\ \E e \in RateLimitSignals :
                          ev' = HandlerEvent("bf", "rl", outs,
                                             extended_wait_time(e), e)
                ELSE /\ pc' = LoopAfter("RateLimitError", "bf_loop")
                     /\ \E ra \in {e.retry_after : e \in RateLimitSignals} :
                          LET e == [NoSignal EXCEPT !.retry_after = ra]
                          IN  ev' = HandlerEvent("bf", "rl", outs,
                                                 base_wait_time(e), e)
    /\ UNCHANGED <<now, outerVars, caller, syncVars, current_date, end_date,
                   cyc>>

\* loop iteration whose fetch raises another exception: the date is skipped
BackfillFetchError ==
    /\ pc = "bf_loop"
    /\ \E outs \in BatchOutcomes(Len(batch)) :
         LET d == strftime(current_date)
             p == [Fetched(bf, d) EXCEPT
                      !.allOk = FALSE, !.hadError = TRUE,
                      !.firstUnconfirmed = Unconf(@, d)]
         IN  /\ PartialFlush(p, outs)
             /\ ev' = HandlerEvent("bf", "err", outs, 0, NoSignal)
    /\ current_date' = current_date + timedelta(1)
    /\ pc' = LoopAfter("Exception", LoopPc(current_date + timedelta(1)))
    /\ UNCHANGED <<now, outerVars, caller, syncVars, end_date,
                   consecutive_rate_limits, cyc>>

\* final retry after the extended wait: the fetch succeeds
BackfillFinalOk ==
    /\ pc = "bf_final"
    /\ \E outs \in FlushOutcomes(Append(batch, strftime(current_date))) :
         AppendAndAdvance("final", outs)
    /\ UNCHANGED <<now, outerVars, caller, syncVars, end_date, cyc>>

\* final retry still rate limited: break
BackfillFinalRateLimited ==
    /\ pc = "bf_final"
    /\ bf' = [Fetched(bf, strftime(current_date)) EXCEPT
                 !.allOk = FALSE, !.stopped = TRUE]
    /\ ev' = [NoEvent EXCEPT !.op = "final", !.fetch = "rl",
                             !.fdate = strftime(current_date)]
    /\ pc' = LoopAfter("RateLimitError", "bf_return")
    /\ UNCHANGED <<now, outerVars, ckptVars, caller, syncVars,
                   bfVars, cyc>>

\* final retry raises another exception: the date is skipped
BackfillFinalError ==
    /\ pc = "bf_final"
    /\ bf' = [Fetched(bf, strftime(current_date)) EXCEPT
                 !.allOk = FALSE, !.hadError = TRUE,
                 !.firstUnconfirmed = Unconf(@, strftime(current_date))]
    /\ ev' = [NoEvent EXCEPT !.op = "final", !.fetch = "err",
                             !.fdate = strftime(current_date)]
    /\ current_date' = current_date + timedelta(1)
    /\ pc' = LoopAfter("Exception", LoopPc(current_date + timedelta(1)))
    /\ UNCHANGED <<now, outerVars, ckptVars, caller, syncVars,
                   end_date, batch, consecutive_rate_limits, cyc>>

\* the pass p began without checkpoint and was stopped by persistent rate
\* limiting before it flushed anything, on a date earlier than its end
StoppedEmpty(p) ==
    /\ p.stopped
    /\ p.startCkpt = NoDate
    /\ p.lastFlushed = NoDate
    /\ p.lastFetch < p.endDay

\* the loop has ended; the pass and backfill_data return to the caller
BackfillReturn ==
    /\ pc = "bf_return"
    /\ pc' = ReturnPc
    /\ current_date' = 0
    /\ end_date' = 0
    /\ batch' = <<>>
    /\ consecutive_rate_limits' = 0
    /\ bf' = NoPass
    /\ ev' = NoEvent
    /\ cyc' = IF caller = "top"
              THEN [NoCycle EXCEPT !.stoppedEmpty = StoppedEmpty(bf)]
              ELSE cyc
    /\ UNCHANGED <<now, outerVars, ckptVars, caller, syncVars>>

\* ---------------------------------------------------------------- sync_data
\* last_sync_date < yesterday.replace(hour=0, minute=0, second=0, ...)
GapExists(last_synced, y) ==
    last_synced # NoDate /\ strptime(last_synced) < replace_midnight(y)

\* control enters sync_data: the gap check, up to the call of backfill_data
EnterSyncData ==
    /\ pc = "idle"
    /\ LET y == now - timedelta(1)
       IN  /\ yesterday' = y
           /\ IF GapExists(last_successful_date, y)
              THEN /\ pc' = "bf_plan"
                   /\ caller' = "sync"
                   /\ cyc' = [ckpt |-> last_successful_date, backfills |-> 1,
                              active |-> TRUE, quota |-> FALSE,
                              stoppedEmpty |-> cyc.stoppedEmpty]
              ELSE /\ pc' = "sync_dates"
                   /\ caller' = "top"
                   /\ cyc' = [ckpt |-> last_successful_date, backfills |-> 0,
                              active |-> TRUE, quota |-> FALSE,
                              stoppedEmpty |-> cyc.stoppedEmpty]
    /\ skip_state_update' = FALSE
    /\ ev' = NoEvent
    /\ UNCHANGED <<now, fixedVars, storeVars, ckptVars, dates_to_sync,
                   target_idx, retry_count, is_complete_day, bfVars, bf>>

\* sync_data invoked directly on the scheduler object
CallSync ==
    /\ phase = "direct"
    /\ EnterSyncData
    /\ UNCHANGED startVars

\* skip_state_update as set after backfill_data has returned: the state is
\* read again and compared with the yesterday computed before the backfill
skip_after_backfill_Never(last_synced, y) == FALSE

skip_after_backfill(last_synced, y) ==
    last_synced # NoDate /\ strptime(last_synced) < replace_midnight(y)

\* backfill_data has returned into sync_data: is the gap still there?
SyncAfterBackfill ==
    /\ pc = "sync_after_bf"
    /\ skip_state_update' = skip_after_backfill(last_successful_date, yesterday)
    /\ caller' = "top"
    /\ pc' = "sync_dates"
    /\ UNCHANGED <<now, outerVars, ckptVars, yesterday,
                   dates_to_sync, target_idx, retry_count, is_complete_day,
                   bfVars, ev, bf, cyc>>

\* device info (no effect on the engine state), then the target dates
SyncDates ==
    /\ pc = "sync_dates"
    /\ dates_to_sync' = <<now - timedelta(1)>>
                        \o (IF cfgToday THEN <<now>> ELSE <<>>)
    /\ target_idx' = 1
    /\ pc' = "sync_target"
    /\ UNCHANGED <<now, outerVars, ckptVars, caller, yesterday,
                   skip_state_update, retry_count, is_complete_day, bfVars,
                   ev, bf, cyc>>

\* "Only yesterday or earlier is complete"
IsCompleteDay_OrToday(target_date) == strftime(target_date) <= strftime(now)

IsCompleteDay(target_date) == strftime(target_date) < strftime(now)

\* head of the for loop: next target date, or return from sync_data
SyncNextTarget ==
    /\ pc = "sync_target"
    /\ IF target_idx <= Len(dates_to_sync)
       THEN /\ retry_count' = 0
            /\ is_complete_day' = IsCompleteDay(dates_to_sync[target_idx])
            /\ pc' = "sync_fetch"
            /\ UNCHANGED <<yesterday, skip_state_update, dates_to_sync,
                           target_idx, cyc>>
       ELSE /\ pc' = "idle"
            /\ yesterday' = 0
            /\ skip_state_update' = FALSE
            /\ dates_to_sync' = <<>>
            /\ target_idx' = 0
            /\ retry_count' = 0
            /\ is_complete_day' = FALSE
            /\ cyc' = NoCycle
    /\ ev' = NoEvent
    /\ UNCHANGED <<now, outerVars, ckptVars, caller, bfVars, bf>>

\* does a confirmed write of the target date move the checkpoint?
StateUpdateDue_AnyWrite(success) ==
    is_complete_day /\ ~skip_state_update

StateUpdateDue(success) ==
    success /\ is_complete_day /\ ~skip_state_update

\* the except clauses around one attempt: "except RateLimitError" and
\* "except Exception" (every other exception of a fetch or a write)
sync_catches_RateLimitOnly(exc) == exc = "RateLimitError"

sync_catches(exc) == exc \in {"RateLimitError", "Exception"}

\* where control is after exc was raised inside the try of an attempt whose
\* handler continues at next_pc; "raised" = the exception leaves sync_data
SyncAfter(exc, next_pc) == IF sync_catches(exc) THEN next_pc ELSE "raised"

\* attempt whose fetch succeeds: write, maybe update the state, break
SyncFetchOk ==
    /\ pc = "sync_fetch"
    /\ \E w \in WriteOutcomes :
         LET d == strftime(dates_to_sync[target_idx])
         IN  /\ IF StateUpdateDue(w = "ok") THEN update_last_sync(d)
                ELSE UNCHANGED ckptVars
             /\ ev' = [NoEvent EXCEPT !.op = "sync", !.fetch = "ok",
                                      !.fdate = d, !.write = w]
             /\ pc' = IF w = "raise" THEN SyncAfter("Exception", "sync_target")
                      ELSE "sync_target"
    /\ target_idx' = target_idx + 1
    /\ UNCHANGED <<now, outerVars, caller, yesterday, skip_state_update,
                   dates_to_sync, retry_count, is_complete_day, bfVars, bf,
                   cyc>>

\* "if retry_count > max_retries" after the increment
retries_exhausted_OffByOne(rc) == rc > max_retries + 1

retries_exhausted(rc) == rc > max_retries

\* attempt whose fetch raises RateLimitError
SyncFetchRateLimited ==
    /\ pc = "sync_fetch"
    /\ \E q \in {<<quota_exhausted(e), base_wait_time(e)>> :
                     e \in RateLimitSignals} :
         LET d == strftime(dates_to_sync[target_idx])
             stop == q[1] \/ retries_exhausted(retry_count + 1)
         IN  /\ retry_count' = IF q[1] THEN retry_count ELSE retry_count + 1
             /\ target_idx' = IF stop THEN target_idx + 1 ELSE target_idx
             /\ pc' = SyncAfter("RateLimitError",
                                IF stop THEN "sync_target" ELSE "sync_fetch")
             /\ ev' = [NoEvent EXCEPT
                          !.op = "sync",
                          !.fetch = IF q[1] THEN "quota" ELSE "rl",
                          !.fdate = d,
                          !.wait = IF stop THEN 0 ELSE q[2]]
             /\ cyc' = [cyc EXCEPT !.quota = @ \/ q[1]]
    /\ UNCHANGED <<now, outerVars, ckptVars, caller, yesterday,
                   skip_state_update, dates_to_sync, is_complete_day, bfVars,
                   bf>>

\* attempt whose fetch raises another exception: break
SyncFetchError ==
    /\ pc = "sync_fetch"
    /\ ev' = [NoEvent EXCEPT !.op = "sync", !.fetch = "err",
                             !.fdate = strftime(dates_to_sync[target_idx])]
    /\ target_idx' = target_idx + 1
    /\ pc' = SyncAfter("Exception", "sync_target")
    /\ UNCHANGED <<now, outerVars, ckptVars, caller, yesterday,
                   skip_state_update, dates_to_sync, retry_count,
                   is_complete_day, bfVars, bf, cyc>>

\* -------------------------------------------------------------------- start
\* what start() does after a readiness check returned ok
after_check_Ignored(ok, next_phase) == next_phase

after_check(ok, next_phase) == IF ok THEN next_phase ELSE "stopped"

\* the name of a readiness check in the trace, with its result
Checked(name, ok) == IF ok THEN name \o ":True" ELSE name \o ":False"

\* "if not self.auth.is_authorized(): ... return"
StartAuthorize ==
    /\ phase = "start"
    /\ \E ok \in BOOLEAN :
         /\ phase' = after_check(ok, "authorized")
         /\ trace' = Append(trace, Checked("is_authorized", ok))
    /\ UNCHANGED <<now, fixedVars, storeVars, ckptVars, jobs, pc, caller,
                   syncVars, bfVars, ev, bf, cyc>>

\* "if not self.writer.test_connection(): ... return"
StartTestConnection ==
    /\ phase = "authorized"
    /\ \E ok \in BOOLEAN :
         /\ phase' = after_check(ok, "connected")
         /\ trace' = Append(trace, Checked("test_connection", ok))
    /\ UNCHANGED <<now, fixedVars, storeVars, ckptVars, jobs, pc, caller,
                   syncVars, bfVars, ev, bf, cyc>>

\* "Perform initial backfill": self.backfill_data()
StartBackfill ==
    /\ phase = "connected"
    /\ EnterBackfillData
    /\ phase' = "backfill"
    /\ trace' = Append(trace, "backfill_data")
    /\ UNCHANGED jobs

\* backfill_data has returned: time.sleep(60)
StartPause ==
    /\ phase = "backfill" /\ pc = "idle"
    /\ phase' = "pause"
    /\ trace' = Append(trace, "sleep")
    /\ UNCHANGED <<now, fixedVars, storeVars, ckptVars, jobs, pc, caller,
                   syncVars, bfVars, ev, bf, cyc>>

\* "Perform immediate sync": self.sync_data()
StartSync ==
    /\ phase = "pause"
    /\ EnterSyncData
    /\ phase' = "sync"
    /\ trace' = Append(trace, "sync_data")
    /\ UNCHANGED jobs

\* the jobs start() adds to the scheduler
scheduled_jobs_Both(intraday) == {"sync_job", "sync_intraday_job"}

scheduled_jobs(intraday) ==
    {"sync_job"} \cup (IF intraday THEN {"sync_intraday_job"} ELSE {})

\* sync_data has returned: add_job for the periodic sync and, if enabled,
\* for the intraday sync
StartAddJobs ==
    /\ phase = "sync" /\ pc = "idle"
    /\ phase' = "jobs"
    /\ jobs' = scheduled_jobs(cfgIntraday)
    /\ trace' = trace \o <<"add_job:sync_job">>
                  \o (IF "sync_intraday_job" \in jobs'
                      THEN <<"add_job:sync_intraday_job">> ELSE <<>>)
    /\ UNCHANGED <<now, fixedVars, storeVars, ckptVars, pc, caller, syncVars,
                   bfVars, ev, bf, cyc>>

\* self.scheduler.start(): the blocking loop of the BlockingScheduler
StartLoop ==
    /\ phase = "jobs"
    /\ phase' = "loop"
    /\ trace' = Append(trace, "scheduler.start")
    /\ UNCHANGED <<now, fixedVars, storeVars, ckptVars, jobs, pc, caller,
                   syncVars, bfVars, ev, bf, cyc>>

\* the interval trigger of sync_job fires: sync_data.  The engine has one
\* position, so a run begins only when no other call is in progress; whether
\* the scheduler library would start an overlapping run is not represented.
JobSync ==
    /\ phase = "loop" /\ "sync_job" \in jobs
    /\ EnterSyncData
    /\ UNCHANGED startVars

\* the interval trigger of sync_intraday_job fires: sync_intraday_data,
\* which reads the clock, the collector and the writer and touches neither
\* the Progress Store nor any state of the sync engine
JobIntraday ==
    /\ phase = "loop" /\ "sync_intraday_job" \in jobs /\ cfgIntraday
    /\ pc = "idle"
    /\ ev' = [NoEvent EXCEPT !.op = "intraday"]
    /\ UNCHANGED <<now, outerVars, ckptVars, pc, caller, syncVars, bfVars, bf,
                   cyc>>

\* ------------------------------------------------------- the Progress Store
\* dates handed to update_last_sync
StoreDays == 0..(MaxDay - 1)

\* SyncState(state_file): __init__ sets the fields to None and loads the file
StoreConstruct ==
    /\ store_pc = "down"
    /\ last_successful_date' = _load_state(state_file)
    /\ store_pc' = "ready"
    /\ sv' = [op |-> "construct", date |-> NoDate,
              old |-> _load_state(state_file)]
    /\ UNCHANGED <<now, fixedVars, startVars, state_file, disk, pc, caller,
                   syncVars, bfVars, ev, bf, cyc>>

\* state.update_last_sync(d) runs to its end
StoreUpdate ==
    /\ store_pc = "ready"
    /\ \E d \in StoreDays :
         /\ update_last_sync(d)
         /\ sv' = [op |-> "update", date |-> d,
                   old |-> _load_state(state_file)]
    /\ UNCHANGED <<now, fixedVars, startVars, disk, store_pc, pc, caller,
                   syncVars, bfVars, ev, bf, cyc>>

\* the files a process killed inside _save_state(d) may leave: the old one
\* (before open), the truncated one (after open(..., 'w'), before the data
\* is flushed), a prefix of the document, or the complete new document
crash_in_save(f, d) == {f, Truncated, Partial(d), json_dump(d)}

\* the process dies inside update_last_sync(d); the instance is gone
StoreCrashInSave ==
    /\ store_pc = "ready"
    /\ \E d \in StoreDays :
         /\ state_file' \in crash_in_save(state_file, d)
         /\ sv' = [op |-> "crash", date |-> d,
                   old |-> _load_state(state_file)]
    /\ last_successful_date' = NoDate
    /\ store_pc' = "down"
    /\ UNCHANGED <<now, fixedVars, startVars, disk, pc, caller, syncVars,
                   bfVars, ev, bf, cyc>>

\* the process ends between two operations of the store
StoreExit ==
    /\ store_pc = "ready"
    /\ last_successful_date' = NoDate
    /\ store_pc' = "down"
    /\ sv' = NoStoreOp
    /\ UNCHANGED <<now, fixedVars, startVars, state_file, disk, pc, caller,
                   syncVars, bfVars, ev, bf, cyc>>

\* ------------------------------------------------------------ interruption
\* KeyboardInterrupt or SystemExit raised while a pass fetches or sleeps: no
\* "except Exception" catches it, it leaves backfill_data and the process
\* ends (main.py); the state file is what the last save left
BackfillInterrupted ==
    /\ pc \in {"bf_loop", "bf_final"}
    /\ pc' = "killed"
    /\ store_pc' = "down"
    /\ last_successful_date' = NoDate
    /\ sv' = [op |-> "exit", date |-> NoDate, old |-> _load_state(state_file)]
    /\ UNCHANGED <<now, fixedVars, startVars, state_file, disk, caller,
                   syncVars, bfVars, ev, bf, cyc>>

\* the batches whose flush can be under way in the current iteration: the
\* one completed by a successful fetch when a flush is due, and the partial
\* one a handler writes before it deals with the exception of the fetch
FlushInProgress ==
    {b \in {Append(batch, strftime(current_date))} : FlushDue(b)}
        \cup {b \in {batch} : b # <<>> /\ pc = "bf_loop"}

\* the same raised inside the update_last_sync of a flush, after
\* write_multiple_days has returned
BackfillInterruptedInSave ==
    /\ pc \in {"bf_loop", "bf_final"}
    /\ \E b \in FlushInProgress :
         /\ state_file' \in crash_in_save(state_file, b[Len(b)])
         /\ sv' = [op |-> "crash", date |-> b[Len(b)],
                   old |-> _load_state(state_file)]
         /\ bf' = [bf EXCEPT !.lastFlushed = b[Len(b)]]
    /\ pc' = "killed"
    /\ store_pc' = "down"
    /\ last_successful_date' = NoDate
    /\ UNCHANGED <<now, fixedVars, startVars, disk, caller, syncVars, bfVars,
                   ev, cyc>>

\* ------------------------------------------------------------ specification
Next ==
    \/ Tick
    \/ CallBackfill
    \/ BackfillPlan
    \/ BackfillFirstDate
    \/ BackfillFetchOk
    \/ BackfillFetchRateLimited
    \/ BackfillFetchError
    \/ BackfillFinalOk
    \/ BackfillFinalRateLimited
    \/ BackfillFinalError
    \/ BackfillReturn
    \/ CallSync
    \/ SyncAfterBackfill
    \/ SyncDates
    \/ SyncNextTarget
    \/ SyncFetchOk
    \/ SyncFetchRateLimited
    \/ SyncFetchError

Spec == Init /\ [][Next]_vars

\* start() is called on a freshly constructed SyncScheduler
InitStart ==
    /\ now \in MinNow..MaxNow
    /\ cfgStart \in {NoDate, MaxDay - 2}
    /\ cfgToday \in BOOLEAN
    /\ cfgIntraday \in BOOLEAN
    /\ state_file \in LeftFiles(now)
    /\ last_successful_date = _load_state(state_file)
    /\ disk = "ok"
    /\ store_pc = "ready"
    /\ sv = NoStoreOp
    /\ phase = "start"
    /\ jobs = {}
    /\ trace = <<>>
    /\ EngineIdle

NextStart ==
    \/ Tick
    \/ StartAuthorize
    \/ StartTestConnection
    \/ StartBackfill
    \/ StartPause
    \/ StartSync
    \/ StartAddJobs
    \/ StartLoop
    \/ JobSync
    \/ JobIntraday
    \/ BackfillPlan
    \/ BackfillFirstDate
    \/ BackfillFetchOk
    \/ BackfillFetchRateLimited
    \/ BackfillFetchError
    \/ BackfillFinalOk
    \/ BackfillFinalRateLimited
    \/ BackfillFinalError
    \/ BackfillReturn
    \/ SyncAfterBackfill
    \/ SyncDates
    \/ SyncNextTarget
    \/ SyncFetchOk
    \/ SyncFetchRateLimited
    \/ SyncFetchError

SpecStart == InitStart /\ [][NextStart]_vars

\* backfill_data alone, called directly and repeatedly while the clock runs
NextBackfill ==
    \/ Tick
    \/ CallBackfill
    \/ BackfillPlan
    \/ BackfillFirstDate
    \/ BackfillFetchOk
    \/ BackfillFetchRateLimited
    \/ BackfillFetchError
    \/ BackfillFinalOk
    \/ BackfillFinalRateLimited
    \/ BackfillFinalError
    \/ BackfillReturn

SpecBackfill == Init /\ [][NextBackfill]_vars

\* one fetch of a pass with all that follows it in the iteration
PassStep ==
    \/ BackfillFetchOk
    \/ BackfillFetchRateLimited
    \/ BackfillFetchError
    \/ BackfillFinalOk
    \/ BackfillFinalRateLimited
    \/ BackfillFinalError

\* the thread that runs the pass takes its next step: the steps of the loop
\* are weakly fair; the clock and the callers are not
SpecBackfillFair == SpecBackfill /\ WF_vars(PassStep)

\* backfill_data alone, interrupted at any point of a pass
NextInterrupt ==
    \/ NextBackfill
    \/ BackfillInterrupted
    \/ BackfillInterruptedInSave

SpecInterrupt == Init /\ [][NextInterrupt]_vars

\* backfill_data called at midday of LongDay with the checkpoint at day 0:
\* the range is longer than a batch
InitLong ==
    /\ now = strptime(LongDay) + 1
    /\ cfgStart = NoDate
    /\ cfgToday = FALSE
    /\ cfgIntraday = FALSE
    /\ state_file = json_dump(0)
    /\ last_successful_date = _load_state(state_file)
    /\ disk = "ok"
    /\ store_pc = "ready"
    /\ sv = NoStoreOp
    /\ phase = "direct"
    /\ jobs = {}
    /\ trace = <<>>
    /\ EngineIdle

NextLong ==
    \/ CallBackfill
    \/ BackfillPlan
    \/ BackfillFetchOk
    \/ BackfillFetchRateLimited
    \/ BackfillFetchError
    \/ BackfillFinalOk
    \/ BackfillFinalRateLimited
    \/ BackfillFinalError
    \/ BackfillReturn

SpecLong == InitLong /\ [][NextLong]_vars

\* recovery: a checkpoint exists, every fetch and every write succeeds, and
\* the interval trigger keeps calling sync_data
InitRecover == Init /\ last_successful_date # NoDate

\* a fetch of the pass succeeds and every write of its flush is confirmed
RecoverBackfillFetch == BackfillFetchOk /\ bf'.allOk

\* a fetch of sync_data succeeds and its write is confirmed
RecoverSyncFetch == SyncFetchOk /\ ev'.write = "ok"

\* the steps of the sync_data cycles
RecoverCycle ==
    \/ CallSync
    \/ BackfillPlan
    \/ RecoverBackfillFetch
    \/ BackfillReturn
    \/ SyncAfterBackfill
    \/ SyncDates
    \/ SyncNextTarget
    \/ RecoverSyncFetch

NextRecover == Tick \/ RecoverCycle

\* the running code takes its next step and the trigger fires the next
\* cycle: the steps of the cycles are weakly fair; the clock is not
SpecRecover ==
    InitRecover /\ [][NextRecover]_vars /\ WF_vars(RecoverCycle)

\* the Progress Store alone: any state file, storage that works or that may
\* fail, no SyncState instance yet; the sync engine stays at rest
InitStore ==
    /\ now = MinNow
    /\ cfgStart = NoDate
    /\ cfgToday = FALSE
    /\ cfgIntraday = FALSE
    /\ state_file \in StateFiles(StoreDays)
    /\ last_successful_date = NoDate
    /\ disk \in {"ok", "faulty"}
    /\ store_pc = "down"
    /\ sv = NoStoreOp
    /\ phase = "direct"
    /\ jobs = {}
    /\ trace = <<>>
    /\ EngineIdle

NextStore ==
    \/ StoreConstruct
    \/ StoreUpdate
    \/ StoreCrashInSave
    \/ StoreExit

SpecStore == InitStore /\ [][NextStore]_vars

\* ------------------------------------------------- sync_intraday_data
\* what a call of sync_intraday_data leaves alone
intradayFrame == <<now, cfgVars, wr, hd, storeVars, startVars, ckptVars, pc,
                   caller, syncVars, bfVars, ev, bf, cyc>>

\* what collector.get_intraday_data can return: a record with datasets, a
\* record whose every resource failed, or an empty dict
IntradayData == {"resources", "no_resources", "empty"}

has_data_Any(data) == TRUE

\* negation of `not data or not data.get("resources")`
has_data(data) == data = "resources"

\* sync_intraday_data is called; "if not Config.ENABLE_INTRADAY_COLLECTION:
\* return"
IntradayCall ==
    /\ intra.pc = "idle" /\ pc = "idle"
    /\ intra' = [pc |-> IF cfgIntraday THEN "fetch" ELSE "done",
                 yesterday |-> now - timedelta(1),
                 ckpt |-> last_successful_date, file |-> state_file,
                 fetches |-> 0, writes |-> 0, data |-> "none",
                 fetch |-> "none", wait_time |-> 0]
    /\ UNCHANGED intradayFrame

\* get_intraday_data(yesterday) returns; without data the call returns
IntradayFetchOk ==
    /\ intra.pc = "fetch"
    /\ \E data \in IntradayData :
         intra' = [intra EXCEPT
                      !.pc = IF has_data(data) THEN "write" ELSE "done",
                      !.fetches = @ + 1, !.data = data, !.fetch = "ok"]
    /\ UNCHANGED intradayFrame

\* get_intraday_data raises RateLimitError: "wait_time = e.retry_after if
\* hasattr(e, "retry_after") else 60", then time.sleep(wait_time)
IntradayFetchRateLimited ==
    /\ intra.pc = "fetch"
    /\ \E ra \in {e.retry_after : e \in RateLimitSignals} :
         intra' = [intra EXCEPT
                      !.pc = "sleep", !.fetches = @ + 1, !.fetch = "rl",
                      !.wait_time = IF ra # NoVal THEN ra
                                    ELSE DefaultRetryAfter]
    /\ UNCHANGED intradayFrame

\* get_intraday_data raises another exception: logged
IntradayFetchError ==
    /\ intra.pc = "fetch"
    /\ intra' = [intra EXCEPT !.pc = "done", !.fetches = @ + 1,
                              !.fetch = "err"]
    /\ UNCHANGED intradayFrame

\* writer.write_intraday_data(data) returns True or False or raises; all
\* three are only logged
IntradayWrite ==
    /\ intra.pc = "write"
    /\ \E w \in WriteOutcomes :
         intra' = [intra EXCEPT !.pc = "done", !.writes = @ + 1]
    /\ UNCHANGED intradayFrame

\* the sleep of the rate-limit handler ends
IntradaySleep ==
    /\ intra.pc = "sleep"
    /\ intra' = [intra EXCEPT !.pc = "done"]
    /\ UNCHANGED intradayFrame

\* sync_intraday_data returns
IntradayReturn ==
    /\ intra.pc = "done"
    /\ intra' = NoIntraday
    /\ UNCHANGED intradayFrame

\* sync_intraday_data alone, with intraday collection enabled or not
InitIntraday ==
    /\ now \in MinNow..MaxNow
    /\ cfgStart = NoDate
    /\ cfgToday = FALSE
    /\ cfgIntraday \in BOOLEAN
    /\ state_file \in LeftFiles(now)
    /\ last_successful_date = _load_state(state_file)
    /\ disk = "ok"
    /\ store_pc = "ready"
    /\ sv = NoStoreOp
    /\ phase = "direct"
    /\ jobs = {}
    /\ trace = <<>>
    /\ EngineIdle

NextIntraday ==
    \/ Tick
    \/ IntradayCall
    \/ IntradayFetchOk
    \/ IntradayFetchRateLimited
    \/ IntradayFetchError
    \/ IntradayWrite
    \/ IntradaySleep
    \/ IntradayReturn

SpecIntraday == InitIntraday /\ [][NextIntraday]_vars

\* ------------------------------------------------- write_multiple_days
\* what a call of write_multiple_days leaves alone
writerFrame == <<now, cfgVars, hd, intra, storeVars, startVars, ckptVars, pc,
                 caller, syncVars, bfVars, ev, bf, cyc>>

\* the lists of daily records (named by their dates) handed to a call
DataPoints ==
    UNION {[1..n -> 0..1] : n \in 0..MaxRecords}

\* write_multiple_days(data_points) is called: "successful = 0; failed = 0"
WriterCall ==
    /\ wr.pc = "idle" /\ pc = "idle"
    /\ \E data_points \in DataPoints :
         wr' = [pc |-> "loop", data_points |-> data_points, i |-> 1,
                successful |-> 0, failed |-> 0, attempts |-> <<>>,
                outs |-> <<>>, result |-> <<>>]
    /\ UNCHANGED writerFrame

\* one iteration of "for data in data_points" whose write_daily_data call
\* has outcome w, continuing at next_pc
WriterIteration(w, next_pc) ==
    /\ wr.pc = "loop" /\ wr.i <= Len(wr.data_points)
    /\ wr' = [wr EXCEPT
                 !.pc = next_pc, !.i = @ + 1,
                 !.attempts = Append(@, wr.data_points[wr.i]),
                 !.outs = Append(@, w),
                 !.successful = IF w = "ok" THEN @ + 1 ELSE @,
                 !.failed = IF w = "ok" THEN @ ELSE @ + 1]
    /\ UNCHANGED writerFrame

\* write_daily_data(data) returns True: "successful += 1"
WriterWriteOk == WriterIteration("ok", "loop")

\* write_daily_data(data) returns False: "failed += 1"
WriterWriteFail == WriterIteration("fail", "loop")

after_write_error_Stop == "return"

\* "except Exception": the error is logged and the loop goes on
after_write_error == "loop"

\* write_daily_data(data) raises: "failed += 1"
WriterWriteRaise == WriterIteration("raise", after_write_error)

\* the list is exhausted: "return successful, failed"
WriterLoopEnd ==
    /\ wr.pc = "loop" /\ wr.i > Len(wr.data_points)
    /\ wr' = [wr EXCEPT !.pc = "return"]
    /\ UNCHANGED writerFrame

\* the caller takes the result
WriterReturn ==
    /\ wr.pc = "return"
    /\ wr' = [pc |-> "idle", result |-> <<wr.successful, wr.failed>>]
    /\ UNCHANGED writerFrame

\* a function of the writer or the collector called on its own, with the
\* scheduler at rest
InitAlone ==
    /\ now = MinNow
    /\ cfgStart = NoDate
    /\ cfgToday = FALSE
    /\ cfgIntraday = FALSE
    /\ state_file \in LeftFiles(now)
    /\ last_successful_date = _load_state(state_file)
    /\ disk = "ok"
    /\ store_pc = "ready"
    /\ sv = NoStoreOp
    /\ phase = "direct"
    /\ jobs = {}
    /\ trace = <<>>
    /\ EngineIdle

NextWriter ==
    \/ WriterCall
    \/ WriterWriteOk
    \/ WriterWriteFail
    \/ WriterWriteRaise
    \/ WriterLoopEnd
    \/ WriterReturn

\* write_multiple_days alone, on every list of up to MaxRecords records
SpecWriter == InitAlone /\ [][NextWriter]_vars

\* ------------------------------------------------- get_historical_data
\* what a call of get_historical_data leaves alone
historicalFrame == <<now, cfgVars, wr, intra, storeVars, startVars, ckptVars,
                     pc, caller, syncVars, bfVars, ev, bf, cyc>>

\* "max_retries = 3" of get_historical_data
hist_max_retries == 3

\* the midnights of the days a range can start or end at
HistDates == {strptime(d) : d \in 0..MaxHistDay}

\* get_historical_data(start_date, end_date) is called
HistCall ==
    /\ hd.pc = "idle" /\ pc = "idle"
    /\ \E start_date \in HistDates, e_date \in HistDates :
         hd' = [pc |-> "loop", start_date |-> start_date,
                end_date |-> e_date, current_date |-> start_date,
                retry_count |-> 0, data_points |-> <<>>,
                fetch |-> "none", fdate |-> NoDate, httpErrors |-> 0,
                result |-> <<>>]
    /\ UNCHANGED historicalFrame

\* the history of a fetch of date d with the given outcome: the HTTP errors
\* of one date are counted
HistFetched(outcome) ==
    LET d == strftime(hd.current_date)
    IN  [hd EXCEPT
            !.fetch = outcome, !.fdate = d,
            !.httpErrors = IF outcome = "http"
                           THEN (IF hd.fdate = d THEN @ ELSE 0) + 1
                           ELSE IF hd.fdate = d THEN @ ELSE 0]

\* get_daily_data(current_date) returns: the record is appended, the
\* retries are reset, and after the 30 second delay the date advances
HistFetchOk ==
    /\ hd.pc = "loop" /\ hd.current_date <= hd.end_date
    /\ hd' = [HistFetched("ok") EXCEPT
                 !.data_points = Append(@, strftime(hd.current_date)),
                 !.retry_count = 0,
                 !.current_date = @ + timedelta(1)]
    /\ UNCHANGED historicalFrame

\* get_daily_data raises RateLimitError: "time.sleep(retry_after)"
HistFetchRateLimited ==
    /\ hd.pc = "loop" /\ hd.current_date <= hd.end_date
    /\ hd' = [HistFetched("rl") EXCEPT !.pc = "rl_sleep"]
    /\ UNCHANGED historicalFrame

\* the sleep ends: "continue  # Retry this date without incrementing"
HistRetryAfterSleep ==
    /\ hd.pc = "rl_sleep"
    /\ hd' = [hd EXCEPT !.pc = "loop"]
    /\ UNCHANGED historicalFrame

\* "if retry_count >= max_retries"
hist_retries_exhausted(n) == n >= hist_max_retries

\* get_daily_data raises requests.exceptions.HTTPError: the date is tried
\* again after 5 seconds, or skipped once the retries are used up
HistFetchHTTPError ==
    /\ hd.pc = "loop" /\ hd.current_date <= hd.end_date
    /\ LET n == hd.retry_count + 1
       IN  hd' = IF hist_retries_exhausted(n)
                 THEN [HistFetched("http") EXCEPT
                          !.retry_count = 0,
                          !.current_date = @ + timedelta(1)]
                 ELSE [HistFetched("http") EXCEPT !.retry_count = n]
    /\ UNCHANGED historicalFrame

\* get_daily_data raises another exception: "Skip and continue"
HistFetchError ==
    /\ hd.pc = "loop" /\ hd.current_date <= hd.end_date
    /\ hd' = [HistFetched("err") EXCEPT !.current_date = @ + timedelta(1)]
    /\ UNCHANGED historicalFrame

\* "while current_date <= end_date" is false: "return data_points"
HistLoopEnd ==
    /\ hd.pc = "loop" /\ hd.current_date > hd.end_date
    /\ hd' = [hd EXCEPT !.pc = "return"]
    /\ UNCHANGED historicalFrame

\* the caller takes the list
HistReturn ==
    /\ hd.pc = "return"
    /\ hd' = [pc |-> "idle", result |-> hd.data_points]
    /\ UNCHANGED historicalFrame

NextHistorical ==
    \/ HistCall
    \/ HistFetchOk
    \/ HistFetchRateLimited
    \/ HistRetryAfterSleep
    \/ HistFetchHTTPError
    \/ HistFetchError
    \/ HistLoopEnd
    \/ HistReturn

\* get_historical_data alone; the thread that runs it takes its next step,
\* whatever the outcomes of the fetches are
SpecHistorical ==
    InitAlone /\ [][NextHistorical]_vars /\ WF_vars(NextHistorical)

TypeOK ==
    /\ pc \in {"idle", "bf_plan", "bf_first", "bf_loop", "bf_final",
               "bf_return",
               "sync_after_bf", "sync_dates", "sync_target", "sync_fetch",
               "raised", "killed"}
    /\ last_successful_date \in {NoDate} \cup Int
    /\ Len(batch) <= batch_size

\* ------------------------------------------------------------------ claims
\* a step of the engine itself (the clock alone changes `now`)
EngineStep == now' = now

\* C1: the checkpoint never changes from a date D to a date earlier than D,
\* whatever start, backfill_data and sync_data do and whatever
\* BACKFILL_START_DATE is configured.
C1_CheckpointMonotonic ==
    [][last_successful_date # NoDate =>
          /\ last_successful_date' # NoDate
          /\ last_successful_date' >= last_successful_date]_vars

\* C2: in sync_data the checkpoint is written for a target date only by an
\* attempt whose fetch succeeded and whose write_daily_data returned
\* success; an attempt whose write fails or raises, or whose fetch raises,
\* leaves the checkpoint as it was.
C2_SyncUpdateOnlyAfterWrite ==
    [][(pc = "sync_fetch" /\ EngineStep) =>
          /\ ~(ev'.fetch = "ok" /\ ev'.write = "ok") =>
                 last_successful_date' = last_successful_date
          /\ last_successful_date' # last_successful_date =>
                 last_successful_date' = ev'.fdate]_vars

\* C2 witness: yesterday was fetched, its write failed in a cycle that would
\* have updated the state, and the checkpoint does not name that date
C2_Witness ==
    /\ ev.op = "sync" /\ ev.fetch = "ok" /\ ev.write = "fail"
    /\ is_complete_day /\ ~skip_state_update
    /\ last_successful_date # ev.fdate

\* C3: with INCLUDE_TODAY_DATA a cycle has today as second target, hands
\* every fetched record (today's too) to the Sink, and the checkpoint is
\* never today's date or later: only a complete day can be the checkpoint.
C3_TodayNeverCheckpoint ==
    /\ last_successful_date # NoDate => last_successful_date < strftime(now)
    /\ pc \in {"sync_target", "sync_fetch"} =>
          /\ Len(dates_to_sync) = IF cfgToday THEN 2 ELSE 1
          /\ cfgToday => dates_to_sync[2] = dates_to_sync[1] + timedelta(1)
    /\ (ev.op = "sync" /\ ev.fetch = "ok") => ev.write \in WriteOutcomes

\* C3 witness: today's record was fetched and written and the checkpoint is
\* an earlier day
C3_Witness ==
    /\ cfgToday /\ ev.op = "sync" /\ ev.fetch = "ok" /\ ev.write = "ok"
    /\ ev.fdate = strftime(now) /\ target_idx = 3
    /\ last_successful_date # NoDate /\ last_successful_date < ev.fdate

\* C4: a backfill flush moves the checkpoint to the last date of the batch
\* only if the Sink confirmed at least that last record; after a flush the
\* Sink failed entirely the checkpoint is where it was.
C4_FlushAdvanceNeedsSinkSuccess ==
    [][(pc \in {"bf_loop", "bf_final"} /\ EngineStep
           /\ ev'.handed > 0 /\ ~ev'.lastOk) =>
          last_successful_date' = last_successful_date]_vars

\* C5: when a backfill pass has moved the checkpoint to D, every date of the
\* pass up to D was confirmed written: no date skipped after a fetch error
\* and no record whose write failed lies at or before D.
C5_NoAdvancePastUnconfirmed ==
    (pc = "bf_return" /\ last_successful_date # bf.startCkpt
        /\ bf.firstUnconfirmed # NoDate) =>
       last_successful_date < bf.firstUnconfirmed

\* a sync_data cycle that began with checkpoint D and yesterday = D + 3
GapOfThree ==
    /\ cyc.active /\ cyc.ckpt # NoDate
    /\ strftime(yesterday) = cyc.ckpt + 3

\* C6: with checkpoint D and yesterday = D + 3 one sync_data cycle invokes
\* backfill_data exactly once; the pass fetches only D+1, D+2, D+3, in
\* ascending order (never D or earlier, never today), and it fetches all
\* three unless it stops on persistent rate limiting.
C6_GapBackfillRange ==
    /\ (GapOfThree /\ pc # "idle") => cyc.backfills = 1
    /\ (GapOfThree /\ caller = "sync" /\ bf.endDay = strftime(yesterday)
           /\ pc \in {"bf_loop", "bf_final", "bf_return"}) =>
          /\ bf.start = cyc.ckpt + 1
          /\ bf.ordered
          /\ bf.attempted \subseteq (cyc.ckpt + 1)..(cyc.ckpt + 3)
          /\ (pc = "bf_return" /\ ~bf.stopped) =>
                 bf.attempted = (cyc.ckpt + 1)..(cyc.ckpt + 3)

\* C6 witness: such a cycle's pass has ended after fetching the three dates
C6_Witness ==
    /\ GapOfThree /\ caller = "sync" /\ pc = "bf_return" /\ ~bf.stopped
    /\ bf.endDay = strftime(yesterday)
    /\ bf.attempted = (cyc.ckpt + 1)..(cyc.ckpt + 3)
    /\ bf.allOk

\* C7: checkpoint D, clock at midday of D + 3, every fetch and write
\* succeeds: the pass hands D+1 and D+2 to the Sink and leaves the
\* checkpoint at D + 2; a following cycle that starts with the checkpoint
\* at yesterday fetches yesterday again and leaves the checkpoint there.
C7_MiddayBackfillExample ==
    /\ (pc = "bf_return" /\ bf.startCkpt # NoDate /\ bf.allOk
           /\ bf.start = bf.startCkpt + 1 /\ bf.endDay = bf.startCkpt + 2
           /\ end_date # replace_midnight(end_date)) =>
          /\ bf.attempted = (bf.startCkpt + 1)..(bf.startCkpt + 2)
          /\ bf.unhanded = 0
          /\ last_successful_date = bf.startCkpt + 2
    /\ (cyc.active /\ cyc.ckpt = strftime(yesterday) /\ ev.op = "sync"
           /\ ev.fetch = "ok" /\ target_idx = 2
           /\ dates_to_sync[1] = yesterday) =>
          /\ ev.fdate = cyc.ckpt
          /\ last_successful_date = cyc.ckpt

\* the extended wait the claim states for a signal
ClaimedExtendedWait(e) ==
    IF e.remaining # NoVal /\ e.remaining <= 0 /\ e.quota_reset # NoVal
    THEN e.quota_reset ELSE 300

\* the extended wait for a signal whose quota_reset is present and not zero
AmendedExtendedWait(e) ==
    IF e.remaining # NoVal /\ e.remaining <= 0 /\ e.quota_reset # NoVal
       /\ e.quota_reset # 0
    THEN e.quota_reset ELSE 300

\* the escalation of C8 with the extended wait given by Wait(_)
Escalation(Wait(_)) ==
    /\ pc = "bf_final" =>
          /\ consecutive_rate_limits >= 3
          /\ ev.fetch = "rl" /\ ev.fdate = strftime(current_date)
          /\ ev.wait = Wait(ev.sig)
    /\ (pc = "bf_return" /\ bf.stopped) => (ev.op = "final" /\ ev.fetch = "rl")
    /\ ev.op = "final" =>
          /\ pc # "bf_final"
          /\ ev.fetch = "rl" => (pc = "bf_return" /\ bf.stopped)
    /\ bf.dateFetches <= 4

\* C8 (as stated): at the third consecutive rate-limit hit the pass waits
\* once, quota_reset seconds if remaining <= 0 and quota_reset is present,
\* else 300 seconds, fetches the same date exactly once more and stops if
\* that attempt is rate limited too; a date is never fetched more than four
\* times.
C8_EscalationAsStated == Escalation(ClaimedExtendedWait)

\* C8 (amended): as above, with the quota_reset wait taken only when
\* quota_reset is present and not zero; otherwise 300 seconds.
C8_Escalation == Escalation(AmendedExtendedWait)

\* C8 witness: the final retry after an 1800 second quota wait was rate
\* limited again and the pass stopped, on the fourth fetch of the date
C8_Witness ==
    /\ pc = "bf_return" /\ bf.stopped /\ bf.dateFetches = 4
    /\ ev.op = "final" /\ ev.fetch = "rl"

\* C8 witness of the wait itself: quota exhausted, waiting 1800 seconds
C8_WaitWitness ==
    /\ pc = "bf_final" /\ ev.sig.remaining = 0 /\ ev.wait = 1800

\* C9: a fetch error on one date does not halt the pass: unless the pass
\* stops on rate limiting every date of the range is fetched, and every
\* record fetched has been handed to the Sink when the pass returns.
C9_ErrorDoesNotHalt ==
    (pc = "bf_return" /\ bf.hadError /\ ~bf.stopped) =>
       /\ bf.attempted = bf.start..bf.endDay
       /\ bf.unhanded = 0

\* C10: when the pass stops on persistent rate limiting, no fetched record
\* is left unflushed, the checkpoint is the last date of the last flushed
\* batch (or untouched if nothing was flushed), and the pass leaves through
\* its normal exit.
C10_StopFlushesEverything ==
    (pc = "bf_return" /\ bf.stopped) =>
       /\ batch = <<>>
       /\ bf.unhanded = 0
       /\ last_successful_date =
             IF bf.lastFlushed # NoDate THEN bf.lastFlushed ELSE bf.startCkpt

\* C10 witness: a pass that fetched and flushed records stopped on rate
\* limiting
C10_Witness ==
    /\ pc = "bf_return" /\ bf.stopped
    /\ bf.lastFlushed # NoDate /\ last_successful_date = bf.lastFlushed
    /\ last_successful_date # bf.startCkpt

\* the part of a sync_data cycle after its backfill_data call has returned
AfterGapBackfill ==
    cyc.backfills = 1 /\ pc \in {"sync_dates", "sync_target", "sync_fetch"}

\* C11: when the checkpoint is still earlier than yesterday after the
\* backfill a sync_data cycle triggered, skip_state_update is true for the
\* rest of the cycle: the cycle still makes yesterday its first target,
\* fetches it and hands what it fetched to write_daily_data, and no step of
\* it changes the checkpoint.
C11_GapCycleKeepsCheckpoint ==
    [][(AfterGapBackfill /\ EngineStep
           /\ GapExists(last_successful_date, yesterday)) =>
          /\ skip_state_update /\ skip_state_update' = (pc' # "idle")
          /\ last_successful_date' = last_successful_date
          /\ pc = "sync_dates" => dates_to_sync'[1] = now - timedelta(1)
          /\ (pc = "sync_target" /\ target_idx = 1) => pc' = "sync_fetch"
          /\ (pc = "sync_fetch" /\ ev'.fetch = "ok") =>
                 /\ ev'.fdate = strftime(dates_to_sync[target_idx])
                 /\ ev'.write \in WriteOutcomes]_vars

\* C11 witness: such a cycle fetched and wrote yesterday and the checkpoint
\* is still the earlier date
C11_Witness ==
    /\ AfterGapBackfill /\ skip_state_update
    /\ ev.op = "sync" /\ ev.fetch = "ok" /\ ev.write = "ok"
    /\ ev.fdate = strftime(yesterday)
    /\ last_successful_date # NoDate /\ last_successful_date < ev.fdate

\* C12: a quota-exhausted signal (remaining <= 0) on a target date ends the
\* work on that date without a retry or a wait, and no later target date of
\* the cycle is fetched; the cycle goes on to its normal return.
C12_QuotaAbortsCycle ==
    /\ (ev.op = "sync" /\ ev.fetch = "quota") =>
          (pc = "sync_target" /\ ev.wait = 0)
    /\ cyc.quota => pc # "sync_fetch"

\* C13 (as stated): a target date is fetched at most three times; a
\* transient rate limit on the first or second fetch leads to another fetch
\* of the same date, one on the third gives the date up with the checkpoint
\* unchanged; when a retry's fetch succeeds the record is written and the
\* checkpoint becomes that date.  retry_count is the number of fetches of
\* the current target already made.
C13_RetryAsStated ==
    [][(pc = "sync_fetch" /\ EngineStep) =>
          /\ retry_count <= 2
          /\ (ev'.fetch = "rl" /\ retry_count < 2) =>
                 /\ pc' = "sync_fetch" /\ target_idx' = target_idx
                 /\ retry_count' = retry_count + 1
          /\ (ev'.fetch = "rl" /\ retry_count = 2) =>
                 /\ pc' = "sync_target" /\ target_idx' = target_idx + 1
                 /\ last_successful_date' = last_successful_date
          /\ (ev'.fetch = "ok" /\ retry_count > 0) =>
                 /\ ev'.write \in WriteOutcomes
                 /\ last_successful_date' = ev'.fdate]_vars

\* C13 (amended): as above, but after a retry's successful fetch the
\* checkpoint becomes that date only when write_daily_data returned
\* success, the date is a complete day and the cycle is not skipping state
\* updates; otherwise it is unchanged.
C13_Retry ==
    [][(pc = "sync_fetch" /\ EngineStep) =>
          /\ retry_count <= 2
          /\ (ev'.fetch = "rl" /\ retry_count < 2) =>
                 /\ pc' = "sync_fetch" /\ target_idx' = target_idx
                 /\ retry_count' = retry_count + 1
          /\ (ev'.fetch = "rl" /\ retry_count = 2) =>
                 /\ pc' = "sync_target" /\ target_idx' = target_idx + 1
                 /\ last_successful_date' = last_successful_date
          /\ (ev'.fetch = "ok" /\ retry_count > 0) =>
                 /\ ev'.write \in WriteOutcomes
                 /\ last_successful_date' =
                       IF ev'.write = "ok" /\ is_complete_day
                          /\ ~skip_state_update
                       THEN ev'.fdate ELSE last_successful_date]_vars

\* C13 witness: the third fetch of yesterday succeeded after two transient
\* rate limits, the record was written and the checkpoint moved to it
C13_Witness ==
    /\ ev.op = "sync" /\ ev.fetch = "ok" /\ ev.write = "ok"
    /\ retry_count = 2 /\ pc = "sync_target"
    /\ last_successful_date = ev.fdate /\ cyc.ckpt # ev.fdate

\* C13 witness of the give-up: three rate-limited fetches of one date
C13_GiveUpWitness ==
    /\ ev.op = "sync" /\ ev.fetch = "rl" /\ retry_count = 3
    /\ pc = "sync_target" /\ last_successful_date = cyc.ckpt

\* a readiness check of start() returned false
FailedCheck ==
    \E i \in 1..Len(trace) :
        trace[i] \in {"is_authorized:False", "test_connection:False"}

\* C14: when is_authorized or test_connection returns false, start() stops
\* there: the failed check is the last call it makes, so no backfill_data,
\* no sync_data, no add_job and no scheduler.start() follows, and the sync
\* engine and the checkpoint are untouched.
C14_NotReadyStops ==
    /\ FailedCheck =>
          /\ phase = "stopped"
          /\ trace \in {<<"is_authorized:False">>,
                        <<"is_authorized:True", "test_connection:False">>}
          /\ jobs = {}
          /\ pc = "idle" /\ ~cyc.active /\ ev = NoEvent /\ bf = NoPass
          /\ last_successful_date = _load_state(state_file)
    /\ phase = "stopped" => FailedCheck

\* C14 witness: authorized, but the connection test failed
C14_Witness ==
    /\ phase = "stopped"
    /\ trace = <<"is_authorized:True", "test_connection:False">>

\* the calls of a start() whose checks pass, in the order of the claim
StartOrder(intraday) ==
    <<"is_authorized:True", "test_connection:True", "backfill_data", "sleep",
      "sync_data", "add_job:sync_job">>
    \o (IF intraday THEN <<"add_job:sync_intraday_job">> ELSE <<>>)
    \o <<"scheduler.start">>

IsPrefix(a, b) == Len(a) <= Len(b) /\ a = SubSeq(b, 1, Len(a))

\* C15: the calls of a start() whose checks pass are, in this order: the
\* two checks, one backfill_data, the pause, one sync_data, add_job for
\* sync_job and (only if intraday collection is enabled) for
\* sync_intraday_job, scheduler.start().  Each call begins after the one
\* before has returned; no sync_data cycle runs before the initial
\* backfill_data has returned; no job exists before the immediate sync_data
\* has returned.
C15_StartOrder ==
    ~FailedCheck =>
       /\ IsPrefix(trace, StartOrder(cfgIntraday))
       /\ phase = "loop" <=> trace = StartOrder(cfgIntraday)
       /\ pc # "idle" =>
             \/ Len(trace) = 3 /\ ~cyc.active /\ caller = "top"
             \/ Len(trace) = 5 /\ cyc.active
             \/ phase = "loop" /\ cyc.active
       /\ cyc.active => Len(trace) >= 5
       /\ jobs = IF Len(trace) < 6 THEN {}
                 ELSE IF cfgIntraday THEN {"sync_job", "sync_intraday_job"}
                 ELSE {"sync_job"}

\* C15 witness: with intraday collection enabled start() has entered the
\* blocking loop and a cycle of the interval job is running
C15_Witness ==
    /\ phase = "loop" /\ trace = StartOrder(TRUE)
    /\ jobs = {"sync_job", "sync_intraday_job"}
    /\ cyc.active /\ pc = "sync_fetch"

\* C17: a crash at any point inside _save_state leaves a state file from
\* which the next SyncState loads either the checkpoint the file held
\* before or the new one, never none where there was one.
C17_SaveIsCrashAtomic ==
    sv.op = "crash" => _load_state(state_file) \in {sv.old, sv.date}

\* C18: after update_last_sync(d) has returned, also when its save failed,
\* the in-memory checkpoint is d only if the state file holds d: a restart
\* loads what the running process had.
C18_MemoryNotAheadOfDisk ==
    (store_pc = "ready" /\ sv.op = "update"
        /\ last_successful_date = sv.date) =>
       _load_state(state_file) = sv.date

\* C19: after update_last_sync(d), get_last_successful_date returns d and a
\* new SyncState on the same state file returns d too, whatever updates
\* came before.
C19_RoundTrip ==
    (store_pc = "ready" /\ sv.op = "update") =>
       /\ last_successful_date = sv.date
       /\ _load_state(state_file) = sv.date

\* the round trip on storage that works (holds; the failing save is what
\* breaks C18 and C19)
RoundTripOnWorkingStorage ==
    (store_pc = "ready" /\ sv.op = "update" /\ disk = "ok") =>
       /\ last_successful_date = sv.date
       /\ _load_state(state_file) = sv.date

\* C20: constructing a SyncState always completes; with a missing or an
\* unparseable state file the new instance has no checkpoint, and the
\* construction leaves the state file as it was (a missing file missing).
C20_ConstructNeverFails ==
    [][(store_pc = "down" /\ store_pc' = "ready") =>
          /\ state_file' = state_file
          /\ state_file.kind \in {"missing", "corrupt"} =>
                 last_successful_date' = NoDate
          /\ state_file.kind = "json" =>
                 last_successful_date' = state_file.date]_vars

\* C20 witness: an instance constructed on an unparseable file that still
\* spells a date has no checkpoint
C20_Witness ==
    /\ store_pc = "ready" /\ sv.op = "construct"
    /\ state_file.kind = "corrupt" /\ state_file.date # NoDate
    /\ last_successful_date = NoDate

\* C20 witness for the missing file
C20_MissingWitness ==
    /\ store_pc = "ready" /\ sv.op = "construct"
    /\ state_file = NoFile /\ last_successful_date = NoDate

\* a pass over the days s..e starts
Planned(s, e) == pc' = "bf_loop" /\ bf'.start = s /\ bf'.endDay = e

\* backfill_data returns without a fetch and without touching the checkpoint
NothingPlanned == pc' = ReturnPc /\ bf' = bf /\ UNCHANGED ckptVars

\* what backfill_data does once get_first_available_date has answered
\* (end_date holds the yesterday computed when backfill_data began)
FirstDatePlan ==
    IF ev'.fdate # NoDate /\ ev'.fdate <= strftime(end_date)
    THEN Planned(ev'.fdate, strftime(end_date))
    ELSE NothingPlanned

\* what backfill_data does without a checkpoint
NoCheckpointPlan ==
    LET y == strftime(now - timedelta(1))
    IN  IF cfgStart # NoDate
        THEN IF cfgStart <= y THEN Planned(cfgStart, y) ELSE NothingPlanned
        ELSE pc' = "bf_first" /\ UNCHANGED ckptVars

C21_FirstDateWitness ==
    /\ pc = "bf_loop"
    /\ bf.attempted = {}
    /\ ev.op = "first_date"
    /\ bf.start = ev.fdate

\* C22: whatever the fetches (success, rate limit, quota exhaustion, other
\* error) and the writes (success, failure, exception) do, no exception
\* leaves sync_data or backfill_data: every such outcome is handled inside
\* the call, which goes on to its next step.
C22_NoExceptionEscapes ==
    /\ pc # "raised"
    /\ ev.fetch \in {"rl", "quota", "err"} \/ ev.write \in {"fail", "raise"}
         => pc \in {"sync_fetch", "sync_target", "bf_loop", "bf_final",
                    "bf_return"}

\* sync_data has absorbed the exception of a write
C22_Witness == ev.op = "sync" /\ ev.write = "raise" /\ pc = "sync_target"

\* backfill_data has absorbed the exception of a fetch and goes on
C22_BackfillWitness == ev.op = "bf" /\ ev.fetch = "err" /\ pc = "bf_loop"

\* a loop iteration of the pass whose fetch is rate limited below the
\* escalation threshold
BelowThresholdHit ==
    /\ EngineStep
    /\ pc = "bf_loop"
    /\ ev'.fetch = "rl"
    /\ consecutive_rate_limits' < max_consecutive_rate_limits

\* what a rate limit below the threshold leaves behind, given the wait
RetrySameDate(wait) ==
    /\ current_date' = current_date
    /\ pc' = "bf_loop"
    /\ ev'.fdate = strftime(current_date)
    /\ ev'.wait = wait

\* the fetch after a rate-limited one is of the same date, and no
\* rate-limited fetch (the final retry included) moves the current date
NoSkipOnRateLimit ==
    /\ EngineStep /\ pc = "bf_loop" /\ ev.op = "bf" /\ ev.fetch = "rl"
         => ev'.fdate = ev.fdate
    /\ EngineStep /\ pc \in {"bf_loop", "bf_final"} /\ ev'.fetch = "rl"
         => current_date' = current_date

\* C23 as stated: a rate limit below the escalation threshold leaves the
\* current date where it is; the engine waits retry_after seconds (60 if
\* absent) and fetches the same date next; no date is skipped because of a
\* rate limit.
C23_RetrySameDateAsStated ==
    [][(BelowThresholdHit =>
          RetrySameDate(IF ev'.sig.retry_after # NoVal
                        THEN ev'.sig.retry_after ELSE DefaultRetryAfter))
       /\ NoSkipOnRateLimit]_vars

\* C23, amended: the same, the wait being retry_after seconds when
\* retry_after is present and not zero, and 60 seconds otherwise.
C23_RetrySameDate ==
    [][(BelowThresholdHit =>
          RetrySameDate(IF ev'.sig.retry_after \notin {NoVal, 0}
                        THEN ev'.sig.retry_after ELSE DefaultRetryAfter))
       /\ NoSkipOnRateLimit]_vars

\* a second rate limit in a row on a date, answered with Retry-After: 0
C23_Witness ==
    /\ pc = "bf_loop"
    /\ ev.op = "bf"
    /\ ev.fetch = "rl"
    /\ ev.sig.retry_after = 0
    /\ ev.wait = DefaultRetryAfter
    /\ bf.dateFetches = 2
    /\ current_date = strptime(ev.fdate)

\* C24: the count of consecutive rate limits is carried across dates (a date
\* skipped after a fetch error does not reset it), and a run of rate-limit
\* hits without a successful fetch in between escalates (extended wait and
\* final retry) exactly once, not once per date.
C24_EscalatesOncePerRun ==
    [][/\ EngineStep /\ pc \in {"bf_loop", "bf_final"} /\ ev'.fetch = "err"
            => consecutive_rate_limits' = consecutive_rate_limits
       /\ bf'.escalations <= 1]_vars

\* C25: every successful fetch of the pass, in the loop or as final retry,
\* leaves the count of consecutive rate limits at zero, so that every later
\* fetch starts from a count of zero.
C25_SuccessResetsCounter ==
    [][EngineStep /\ pc \in {"bf_loop", "bf_final"} /\ ev'.fetch = "ok"
         => /\ consecutive_rate_limits' = 0
            /\ pc' \in {"bf_loop", "bf_return"}]_vars

\* the final retry, reached with a count of three, has succeeded and the
\* loop goes on
C25_Witness ==
    /\ pc = "bf_loop"
    /\ ev.op = "final"
    /\ ev.fetch = "ok"
    /\ bf.dateFetches = max_consecutive_rate_limits + 1
    /\ consecutive_rate_limits = 0

\* a fetch in the loop has succeeded after two rate limits on the same date
C25_LoopWitness ==
    /\ pc = "bf_loop"
    /\ ev.op = "bf"
    /\ ev.fetch = "ok"
    /\ bf.dateFetches = max_consecutive_rate_limits
    /\ consecutive_rate_limits = 0

\* C26: a fetch of the pass that fails with an error other than a rate limit
\* is re-attempted on the same date (a small bounded number of times) before
\* the date is skipped: the first fetch of a date that raises such an error
\* does not move the current date.
C26_ErrorRetriedBeforeSkip ==
    [][/\ EngineStep
       /\ pc = "bf_loop"
       /\ ev'.fetch = "err"
       /\ bf'.dateFetches = 1
       => current_date' = current_date /\ pc' = "bf_loop"]_vars

\* C27: the checkpoint never falsely appears caught up; in particular, when
\* no checkpoint exists and the initial backfill was stopped before it
\* flushed anything (leaving a date before yesterday unfetched), the
\* sync_data cycle that follows does not set the checkpoint to yesterday.
C27_NoFalseCatchUp ==
    cyc.active /\ cyc.stoppedEmpty /\ phase = "sync"
        => last_successful_date # strftime(yesterday)

C29_BatchBoundedAndCleared ==
    /\ Len(batch) <= batch_size
    /\ ev.handed <= batch_size
    /\ ev.handed > 0 => batch = <<>>
    /\ \A i, j \in 1..Len(batch) : i < j => batch[i] < batch[j]
    /\ batch # <<>> /\ bf.lastFlushed # NoDate => bf.lastFlushed < batch[1]
    /\ bf.unhanded = Len(batch)

\* a full batch was flushed, no write of it was confirmed, and the loop goes
\* on with an empty batch
C29_Witness ==
    /\ pc = "bf_loop"
    /\ ev.fetch = "ok"
    /\ ev.handed = batch_size
    /\ ~ev.anyOk
    /\ batch = <<>>

\* C30: interrupting a backfill at any point leaves the durable checkpoint
\* at the last date of the most recently flushed batch (the one whose save
\* was under way counted or not): the progress of the batches flushed
\* before is never lost and the checkpoint names no date of an unflushed
\* batch.
C30_InterruptKeepsProgress ==
    pc = "killed" =>
        IF sv.op = "crash"
        THEN _load_state(state_file) \in {sv.old, sv.date}
        ELSE _load_state(state_file) =
                 IF bf.lastFlushed # NoDate THEN bf.lastFlushed
                 ELSE bf.startCkpt

\* C31: every single blocking wait of a backfill pass (retry-after wait,
\* quota-reset wait, extended wait) stays under a fixed ceiling, here the
\* longest wait the engine chooses by itself (the extended wait): a signal
\* that asks for more makes the pass stop instead of sleeping for it.
C31_WaitCeiling ==
    ev.op = "bf" => ev.wait <= ExtendedWait

\* the pass is inside its loop
InPass == pc \in {"bf_loop", "bf_final"}

\* C32: _backfill_with_incremental_sync terminates for every sequence of
\* fetch and write outcomes: a pass that is in its loop leaves it; each step
\* of the loop advances the current date, leaves the loop or increases the
\* count of consecutive rate limits; and no date is fetched more than four
\* times.
C32_PassTerminates ==
    /\ InPass ~> ~InPass
    /\ [][EngineStep /\ InPass =>
            \/ current_date' > current_date
            \/ ~InPass'
            \/ consecutive_rate_limits' > consecutive_rate_limits]_vars
    /\ [](bf.dateFetches <= max_consecutive_rate_limits + 1)

\* C32 witness: a pass under persistent rate limiting has left its loop
\* after the fourth fetch of one date, with later dates never reached
C32_Witness ==
    /\ pc = "bf_return" /\ bf.stopped
    /\ bf.dateFetches = max_consecutive_rate_limits + 1
    /\ bf.attempted = {bf.start} /\ bf.endDay > bf.start

\* C33: when _backfill_with_incremental_sync returns, at any time of day and
\* for any fetch and write outcomes, the batch is empty and every record
\* fetched in the pass has been handed to the Sink.
C33_ReturnsWithEmptyBatch ==
    pc = "bf_return" => (batch = <<>> /\ bf.unhanded = 0)

\* the dates of the records in the batch
BatchDates == {batch[i] : i \in 1..Len(batch)}

\* C34: a pass over [start, end] fetches only dates of [start, end], in
\* non-decreasing order; the records it holds were fetched in the pass; every
\* value a step of the pass writes to the checkpoint is the date of a record
\* held in the batch or fetched successfully in that step; and that value is
\* earlier than today.
C34_PassStaysInRange ==
    /\ [](/\ bf.attempted \subseteq bf.start..bf.endDay
          /\ bf.ordered
          /\ InPass => BatchDates \subseteq bf.attempted)
    /\ [][(EngineStep /\ InPass
           /\ last_successful_date' # last_successful_date) =>
            /\ last_successful_date' \in
                  BatchDates \cup
                  (IF ev'.fetch = "ok" THEN {ev'.fdate} ELSE {})
            /\ last_successful_date' \in bf.start..bf.endDay
            /\ last_successful_date' < strftime(now)]_vars

\* C34 witness: a pass has fetched more than one date and its flush has made
\* the date of the record fetched last the checkpoint
C34_Witness ==
    /\ ev.op = "bf" /\ ev.fetch = "ok" /\ ev.handed > 1
    /\ last_successful_date = ev.fdate
    /\ last_successful_date = bf.endDay
    /\ bf.startCkpt # ev.fdate

\* C35: in every state the checkpoint, when set, is a day before today, and
\* whenever a step writes it the value is not later than the yesterday of
\* the clock at that moment; this holds as well when midnight passes between
\* the computation of a cycle's target dates and the processing of the
\* target that was today.
C35_CheckpointNotAfterYesterday ==
    /\ [](last_successful_date # NoDate =>
             last_successful_date <= strftime(now - timedelta(1)))
    /\ [][last_successful_date' # last_successful_date =>
             /\ last_successful_date' # NoDate
             /\ last_successful_date' <= strftime(now' - timedelta(1))
             /\ now' = now]_vars
    /\ [](pc = "sync_fetch" /\ is_complete_day =>
             strftime(dates_to_sync[target_idx])
                 <= strftime(now - timedelta(1)))

\* C35 witness: midnight passed after the target dates were computed, the
\* second target (today at that time) was processed as a complete day and
\* its date is the checkpoint
C35_Witness ==
    /\ cfgToday /\ Len(dates_to_sync) = 2 /\ target_idx = 3
    /\ ev.op = "sync" /\ ev.fetch = "ok" /\ ev.write = "ok"
    /\ ev.fdate = strftime(dates_to_sync[2])
    /\ last_successful_date = ev.fdate
    /\ ev.fdate = strftime(now - timedelta(1))

\* C36: sync_intraday_data never modifies the checkpoint; with intraday
\* collection disabled it fetches nothing and writes nothing; when the fetch
\* returns no data it writes nothing; and after a rate limit it makes no
\* second fetch (and no write) in that call.
C36_IntradayFrame ==
    /\ [][intra' # intra =>
             /\ last_successful_date' = last_successful_date
             /\ state_file' = state_file]_vars
    /\ [](intra.pc # "idle" =>
             /\ last_successful_date = intra.ckpt /\ state_file = intra.file
             /\ ~cfgIntraday => (intra.fetches = 0 /\ intra.writes = 0)
             /\ intra.data # "resources" => intra.writes = 0
             /\ intra.fetches <= 1
             /\ intra.fetch = "rl" =>
                   /\ intra.pc \in {"sleep", "done"}
                   /\ intra.fetches = 1 /\ intra.writes = 0)

\* C36 witness: a call was rate limited, slept for the default wait and is
\* about to return with one fetch and no write
C36_Witness ==
    /\ intra.pc = "done" /\ intra.fetch = "rl"
    /\ intra.wait_time = DefaultRetryAfter /\ intra.fetches = 1

\* C36 witness: a call with collection disabled is about to return
C36_DisabledWitness ==
    /\ ~cfgIntraday /\ intra.pc = "done" /\ intra.fetches = 0

\* C36 witness: the fetch returned a record without datasets and the call
\* is about to return without a write
C36_NoDataWitness ==
    /\ intra.pc = "done" /\ intra.data = "no_resources" /\ intra.writes = 0

\* C37: write_multiple_days attempts a write for every record, in the order
\* of the list, also after an earlier write failed or raised, and returns
\* (successful, failed) with successful + failed = the number of records:
\* successful counts the writes that returned True, failed the others.
C37_WritesEveryRecord ==
    wr.pc = "return" =>
        /\ wr.attempts = wr.data_points
        /\ wr.successful + wr.failed = Len(wr.data_points)
        /\ wr.successful
              = Cardinality({i \in 1..Len(wr.outs) : wr.outs[i] = "ok"})
        /\ <<wr.successful, wr.failed>>
              = write_multiple_days(wr.data_points, wr.outs)

\* C37 witness: the first write raised, the second failed, the third
\* succeeded; the call returns (1, 2)
C37_Witness ==
    /\ wr.pc = "return" /\ wr.outs = <<"raise", "fail", "ok">>
    /\ wr.successful = 1 /\ wr.failed = 2

\* the list holds at most one record per date, in ascending order, of dates
\* of the range; no date has failed with more than three HTTP errors
HistoricalSafety ==
    hd.pc # "idle" =>
        /\ \A i, j \in 1..Len(hd.data_points) :
              i < j => hd.data_points[i] < hd.data_points[j]
        /\ \A i \in 1..Len(hd.data_points) :
              /\ hd.data_points[i] >= strftime(hd.start_date)
              /\ hd.data_points[i] <= strftime(hd.end_date)
        /\ hd.httpErrors <= hist_max_retries
        /\ hd.fetch = "rl" => hd.current_date = strptime(hd.fdate)

\* C38: get_historical_data terminates for every sequence of fetch outcomes
\* and returns at most one record per date in ascending order: a date that
\* fails with HTTP errors is attempted at most three times and then skipped,
\* a rate-limited date is retried without advancing.
C38_HistoricalTerminates ==
    /\ (hd.pc = "loop") ~> (hd.pc = "return")
    /\ []HistoricalSafety

====
